---- MODULE Spec2Model ----
(***************************************************************************)
(* Model of grommet's DataForm (src/js/components/Data/DataForm.js): the   *)
(* codec between the external View and the flat Form value, the           *)
(* normalisation applied to every edit, and the DataForm component's      *)
(* handlers.                                                              *)
(*                                                                        *)
(* JavaScript values are modelled as records of one shape                 *)
(*   [t |-> type tag, s |-> string payload, n |-> numeric payload]        *)
(* so that any two values can be compared.  A key that is missing from an *)
(* object and a key whose value is undefined are both `Undef`.            *)
(***************************************************************************)
EXTENDS Integers, Sequences, FiniteSets, TLC

VARIABLES views, view, props, formValue, changed, event, norm, calls,
          touchedOut, emitted, thrown, pc

vars == <<views, view, props, formValue, changed, event, norm, calls,
          touchedOut, emitted, thrown, pc>>

----------------------------------------------------------------------------
(* Bounds *)

\* page numbers range over 0..MaxPage
MaxPage == 2
\* range minima range over 0..MaxMin
MaxMin == 1

----------------------------------------------------------------------------
(* JavaScript values *)

Undef == [t |-> "undefined", s |-> "", n |-> <<>>]
Str(x) == [t |-> "string", s |-> x, n |-> <<>>]
Num(i) == [t |-> "number", s |-> "", n |-> <<i>>]
\* an array of scalars; the elements are option identifiers
Arr(q) == [t |-> "array", s |-> "", n |-> q]
\* the View's range filter { min: a, max: b }
MinMax(a, b) == [t |-> "minmax", s |-> "", n |-> <<a, b>>]
\* the Form's range value { _range: [a, b] }
RangeValue(a, b) == [t |-> "range", s |-> "", n |-> <<a, b>>]
\* a sort object { property: p, direction: d }, d = 0 (asc) or 1 (desc)
SortValue(p, d) == [t |-> "sort", s |-> p, n |-> <<d>>]

\* JavaScript truthiness: undefined, '' and 0 are falsy; objects and
\* arrays (even empty ones) are truthy
Truthy(v) ==
  CASE v.t = "undefined" -> FALSE
    [] v.t = "string" -> v.s # ""
    [] v.t = "number" -> v.n[1] # 0
    [] OTHER -> TRUE

\* Array.isArray(v) && v.length === 0
IsEmptyArray(v) == v.t = "array" /\ Len(v.n) = 0

RECURSIVE JoinNums(_)
JoinNums(q) ==
  IF Len(q) = 0 THEN ""
  ELSE IF Len(q) = 1 THEN ToString(q[1])
  ELSE ToString(q[1]) \o "," \o JoinNums(Tail(q))

\* JSON.stringify of a defined value
JSONStringify(v) ==
  CASE v.t = "string" -> "'" \o v.s \o "'"
    [] v.t = "number" -> ToString(v.n[1])
    [] v.t = "array" -> "[" \o JoinNums(v.n) \o "]"
    [] v.t = "minmax" -> "{min:" \o ToString(v.n[1]) \o ",max:" \o ToString(v.n[2]) \o "}"
    [] v.t = "range" -> "{_range:[" \o JoinNums(v.n) \o "]}"
    [] v.t = "sort" -> "{property:'" \o v.s \o "',direction:" \o ToString(v.n[1]) \o "}"
    [] OTHER -> "undefined"

----------------------------------------------------------------------------
(* Objects as finite maps from keys to values *)

EmptyMap == [k \in {} |-> Undef]
Get(f, k) == IF k \in DOMAIN f THEN f[k] ELSE Undef
Put(f, k, v) == [x \in (DOMAIN f) \cup {k} |-> IF x = k THEN v ELSE f[x]]
Del(f, k) == [x \in (DOMAIN f) \ {k} |-> f[x]]
\* { ...a, ...b }
Merge(a, b) == [x \in (DOMAIN a) \cup (DOMAIN b) |-> IF x \in DOMAIN b THEN b[x] ELSE a[x]]

----------------------------------------------------------------------------
(* Form keys *)

formSearchKey == "_search"
formSortKey == "_sort"
formRangeKey == "_range"
formStepKey == "_step"
formPageKey == "_page"
formColumnsKey == "_columns"
formViewNameKey == "_view"

viewFormKeyMap ==
  [search |-> formSearchKey, sort |-> formSortKey, step |-> formStepKey,
   page |-> formPageKey, columns |-> formColumnsKey, view |-> formViewNameKey]

\* Object.keys(viewFormKeyMap), in insertion order
ViewKeys == <<"search", "sort", "step", "page", "columns", "view">>

----------------------------------------------------------------------------
(* Views *)

\* The view object; `exists` is FALSE for an undefined view, and
\* hasProperties tells whether the object has a properties field.
MkView(name, search, sort, step, page, columns, hasProperties, properties) ==
  [exists |-> TRUE, name |-> name, view |-> Undef, search |-> search,
   sort |-> sort, step |-> step, page |-> page, columns |-> columns,
   hasProperties |-> hasProperties, properties |-> properties]

\* the object {}
EmptyObject == MkView(Undef, Undef, Undef, Undef, Undef, Undef, FALSE, EmptyMap)
\* undefined, where a view is expected
NoView == [EmptyObject EXCEPT !.exists = FALSE]

\* views.find((v) => v.name === name): the index of the first match, 0 if none
FindView(vs, name) ==
  IF \E i \in 1..Len(vs) : vs[i].name = name
  THEN CHOOSE i \in 1..Len(vs) :
         /\ vs[i].name = name
         /\ \A j \in 1..(i - 1) : vs[j].name # name
  ELSE 0

\* the result of views.find, NoView when it is undefined
FoundView(vs, name) == IF FindView(vs, name) = 0 THEN NoView ELSE vs[FindView(vs, name)]

----------------------------------------------------------------------------
(* Codec *)

RECURSIVE CopyViewKeys(_, _, _)
\* Object.keys(viewFormKeyMap).forEach((key) => {
\*   if (view?.[key]) result[viewFormKeyMap[key]] = view[key]; })
CopyViewKeys(result, v, keys) ==
  IF keys = <<>> THEN result
  ELSE LET key == Head(keys)
       IN CopyViewKeys(IF Truthy(v[key]) THEN Put(result, viewFormKeyMap[key], v[key])
                       ELSE result,
                       v, Tail(keys))

\* ToRangeValue with the two bounds in the wrong order
ToRangeValueSwapped(x) == IF x.t = "minmax" THEN RangeValue(x.n[2], x.n[1]) ELSE x

\* { min, max } becomes { _range: [min, max] }
ToRangeValue(x) == IF x.t = "minmax" THEN RangeValue(x.n[1], x.n[2]) ELSE x

\* viewToFormValue without the default for the search text
viewToFormValueNoDefault(v) ==
  LET r0 == IF v.exists /\ v.hasProperties THEN v.properties ELSE EmptyMap
      r1 == [k \in DOMAIN r0 |-> ToRangeValue(r0[k])]
      r2 == CopyViewKeys(r1, v, ViewKeys)
      r4 == IF Truthy(v.sort) THEN Put(r2, formSortKey, v.sort) ELSE r2
      r5 == IF Truthy(v.name) THEN Put(r4, formViewNameKey, v.name) ELSE r4
      r6 == IF Truthy(v.columns) THEN Put(r5, formColumnsKey, v.columns) ELSE r5
  IN r6

\* converts from the external view format to the internal Form value format
viewToFormValue(v) ==
  LET r0 == IF v.exists /\ v.hasProperties THEN v.properties ELSE EmptyMap
      r1 == [k \in DOMAIN r0 |-> ToRangeValue(r0[k])]
      r2 == CopyViewKeys(r1, v, ViewKeys)
      r3 == IF ~Truthy(Get(r2, formSearchKey)) THEN Put(r2, formSearchKey, Str("")) ELSE r2
      r4 == IF Truthy(v.sort) THEN Put(r3, formSortKey, v.sort) ELSE r3
      r5 == IF Truthy(v.name) THEN Put(r4, formViewNameKey, v.name) ELSE r4
      r6 == IF Truthy(v.columns) THEN Put(r5, formColumnsKey, v.columns) ELSE r5
  IN r6

\* const result = view?.properties || {}: without the spread, result is
\* the properties object of the view whenever the view has one
resultSharesPropertiesNoSpread(v) == v.exists /\ v.hasProperties

\* const result = { ...(view?.properties || {}) }: result is a new object,
\* so nothing that is written to result reaches view.properties
resultSharesProperties(v) == FALSE

\* the view v after viewToFormValue(v) ran and its result ended up holding
\* the keys and values of written
viewAfterWrites(v, written) ==
  IF resultSharesProperties(v) THEN [v EXCEPT !.properties = written] ELSE v

\* JSON.parse(JSON.stringify(x)) of a view object: a copy with the same
\* fields and values (fields that are undefined stay missing)
JSONClone(x) ==
  [x EXCEPT !.properties = [k \in DOMAIN x.properties |-> x.properties[k]]]

\* JSON.parse(JSON.stringify(undefined)) is JSON.parse(undefined), which
\* throws a SyntaxError: formValueToView throws when the value names a view
\* that views.find does not find
formValueToViewThrows(value, vs) ==
  /\ Truthy(Get(value, formViewNameKey))
  /\ FindView(vs, Get(value, formViewNameKey)) = 0

RECURSIVE ReadFormKeys(_, _, _)
\* Object.keys(viewFormKeyMap).forEach((key) => {
\*   if (valueCopy[viewFormKeyMap[key]]) result[key] = valueCopy[viewFormKeyMap[key]];
ReadFormKeys(result, value, keys) ==
  IF keys = <<>> THEN result
  ELSE LET key == Head(keys)
           fk == viewFormKeyMap[key]
       IN ReadFormKeys(IF Truthy(Get(value, fk)) THEN [result EXCEPT ![key] = value[fk]]
                       ELSE result,
                       value, Tail(keys))

\* the keys of valueCopy after every form key was deleted from it
PropertyKeys(value) == (DOMAIN value) \ {viewFormKeyMap[key] : key \in DOMAIN viewFormKeyMap}

\* FromRangeValue that leaves the wrapper in place
FromRangeValueKeepsWrapper(x) == x

\* { _range: [min, max] } becomes { min, max }
FromRangeValue(x) == IF x.t = "range" THEN MinMax(x.n[1], x.n[2]) ELSE x

\* converts from the internal Form value format to the external view format
\* (the result when formValueToViewThrows is false)
formValueToView(value, vs) ==
  LET seed == IF Truthy(Get(value, formViewNameKey))
                 /\ FindView(vs, Get(value, formViewNameKey)) # 0
              THEN JSONClone(FoundView(vs, Get(value, formViewNameKey)))
              ELSE EmptyObject
      r1 == ReadFormKeys(seed, value, ViewKeys)
      valueCopy == [k \in PropertyKeys(value) |-> value[k]]
      props0 == Merge(IF r1.hasProperties THEN r1.properties ELSE EmptyMap, valueCopy)
  IN [r1 EXCEPT !.hasProperties = TRUE,
                !.properties = [k \in DOMAIN props0 |-> FromRangeValue(props0[k])]]

\* result = JSON.parse(JSON.stringify(views.find(...))): result is a new
\* object with new nested objects, so nothing that is written to result or
\* to result.properties reaches the entry of views
resultSharesEntry(value, vs) == FALSE

\* the collection after formValueToView(value, vs) ran
viewsAfterDecode(value, vs) ==
  LET i == FindView(vs, Get(value, formViewNameKey))
  IN IF resultSharesEntry(value, vs) /\ Truthy(Get(value, formViewNameKey)) /\ i # 0
     THEN [vs EXCEPT ![i] = formValueToView(value, vs)]
     ELSE vs

----------------------------------------------------------------------------
(* Normalisation of an edited Form value *)

\* clearEmpty that removes nothing
clearEmptyKeepsAll(formValue_) == formValue_

\* remove any empty arrays of property values by deleting the key
clearEmpty(formValue_) ==
  [k \in {x \in DOMAIN formValue_ : ~IsEmptyArray(formValue_[x])} |-> formValue_[k]]

\* prevFormValue[formPageKey] && prevFormValue[formPageKey] > 1
PageBeyondFirst(prevFormValue) ==
  LET page == Get(prevFormValue, formPageKey)
  IN Truthy(page) /\ page.t = "number" /\ page.n[1] > 1

\* resetPage that leaves the page alone
resetPageNever(nextFormValue, prevFormValue) == nextFormValue

\* if paging, reset the page to 1; the value of nextFormValue afterwards
resetPage(nextFormValue, prevFormValue) ==
  IF PageBeyondFirst(prevFormValue)
  THEN Put(nextFormValue, formPageKey, Num(1))
  ELSE nextFormValue

\* Diverged that compares the property values only, not the form keys
DivergedOnProperties(result, viewValue) ==
  \E k \in (DOMAIN viewValue) \ {viewFormKeyMap[key] : key \in DOMAIN viewFormKeyMap} :
    /\ Truthy(viewValue[k])
    /\ Truthy(Get(result, k))
    /\ JSONStringify(Get(result, k)) # JSONStringify(viewValue[k])

\* Diverged that also counts a key the edited value does not have
DivergedOnMissing(result, viewValue) ==
  \E k \in DOMAIN viewValue :
    /\ Truthy(viewValue[k])
    /\ JSONStringify(Get(result, k)) # JSONStringify(viewValue[k])

\* Object.keys(viewValue).some((k) => viewValue[k] && result[k] &&
\*   JSON.stringify(result[k]) !== JSON.stringify(viewValue[k]))
Diverged(result, viewValue) ==
  \E k \in DOMAIN viewValue :
    /\ Truthy(viewValue[k])
    /\ Truthy(Get(result, k))
    /\ JSONStringify(Get(result, k)) # JSONStringify(viewValue[k])

\* normalizeValue that keeps the other edits when the view name changes
normalizeValueKeepEdits(nextValue, prevValue, vs) ==
  IF /\ Truthy(Get(nextValue, formViewNameKey))
     /\ Get(nextValue, formViewNameKey) # Get(prevValue, formViewNameKey)
  THEN Merge(viewToFormValue(FoundView(vs, Get(nextValue, formViewNameKey))),
             clearEmpty(nextValue))
  ELSE clearEmpty(nextValue)

\* function shared by onSubmit and onChange to coordinate view name changes
normalizeValue(nextValue, prevValue, vs) ==
  IF /\ Truthy(Get(nextValue, formViewNameKey))
     /\ Get(nextValue, formViewNameKey) # Get(prevValue, formViewNameKey)
  THEN \* view name changed, reset view contents from named view
       viewToFormValue(FoundView(vs, Get(nextValue, formViewNameKey)))
  ELSE \* something else changed, clear empty properties
       LET result == clearEmpty(nextValue)
       IN IF Truthy(Get(result, formViewNameKey))
          THEN LET viewValue ==
                     clearEmpty(viewToFormValue(FoundView(vs, result[formViewNameKey])))
               IN IF Diverged(result, viewValue)
                  THEN Del(result, formViewNameKey)
                  ELSE result
          ELSE result

\* the collection after normalizeValue(nextValue, prevValue, vs) and
\* resetPage ran, the handler ending up with the value set: the result of
\* viewToFormValue for the named entry is returned and then written by
\* resetPage (view name changed), or written by clearEmpty (otherwise)
viewsAfterNormalize(nextValue, prevValue, vs, set) ==
  LET name == Get(nextValue, formViewNameKey)
      i == FindView(vs, name)
  IN IF ~Truthy(name) \/ i = 0 THEN vs
     ELSE IF name # Get(prevValue, formViewNameKey)
          THEN [vs EXCEPT ![i] = viewAfterWrites(vs[i], set)]
          ELSE [vs EXCEPT ![i] = viewAfterWrites(vs[i], clearEmpty(viewToFormValue(vs[i])))]

----------------------------------------------------------------------------
(* Touched report *)

\* the key of a touched path, given as its dot-separated parts
RECURSIVE JoinPath(_)
JoinPath(parts) ==
  IF Len(parts) = 1 THEN parts[1] ELSE parts[1] \o "." \o JoinPath(Tail(parts))

\* transformTouched without the special case for _range fields
transformTouchedLiteral(touched, value) ==
  [parts \in touched |-> Get(value, JoinPath(parts))]

\* the value of each touched path; a path whose second part is _range
\* reports the value of its first part
transformTouched(touched, value) ==
  [parts \in touched |->
     IF Len(parts) > 1 /\ parts[2] = formRangeKey
     THEN Get(value, parts[1])
     ELSE Get(value, JoinPath(parts))]

----------------------------------------------------------------------------
(* Inputs *)

Sort1 == SortValue("name", 0)
Sort2 == SortValue("name", 1)

\* the named views of the collection
ViewA == MkView(Str("A"), Undef, Undef, Undef, Undef, Undef, TRUE, [status |-> Str("open")])
ViewB == MkView(Str("B"), Str("q"), Sort1, Num(10), Num(MaxPage), Arr(<<1>>), TRUE,
                [age |-> MinMax(MaxMin, 5)])

\* a named view that holds an empty selection and an empty columns list
ViewC == MkView(Str("C"), Undef, Undef, Undef, Undef, Arr(<<>>), TRUE, [status |-> Arr(<<>>)])

\* the collections: none, one and two named views
ViewsSet == {<<>>, <<ViewA>>, <<ViewA, ViewB>>, <<ViewA, ViewC>>}

Optional(S) == {Undef} \cup S
Pages == {Num(i) : i \in 0..MaxPage}
StatusValues == {Str(""), Str("open"), Arr(<<>>), Arr(<<1>>)}
AgeValues == {MinMax(i, 5) : i \in 0..MaxMin}

\* the properties objects over the property names status and age
PropertiesSet ==
  {Merge(a, b) : a \in {EmptyMap} \cup {[status |-> x] : x \in StatusValues},
                 b \in {EmptyMap} \cup {[age |-> x] : x \in AgeValues}}

\* the views a data source may supply: undefined, or an object with any of
\* the fields, with or without a properties object
ViewSet ==
  {NoView} \cup
  {[MkView(nm, se, so, st, pg, co, pr[1], pr[2]) EXCEPT !.view = vw] :
     nm \in Optional({Str("A"), Str("B"), Str("Z")}),
     vw \in Optional({Str("B")}),
     se \in Optional({Str(""), Str("q")}),
     so \in Optional({Sort1}),
     st \in Optional({Num(10)}),
     pg \in Optional(Pages),
     co \in Optional({Arr(<<>>), Arr(<<1>>)}),
     pr \in {<<FALSE, EmptyMap>>} \cup {<<TRUE, p>> : p \in PropertiesSet}}

NoEvent == [kind |-> "none", value |-> EmptyMap, touched |-> {}, prev |-> EmptyMap]
DefaultProps == [updateOn |-> "change", onTouched |-> FALSE, onDone |-> FALSE]

----------------------------------------------------------------------------
(* The codec applied to one view: encode, then decode *)

InitCodec ==
  /\ views \in ViewsSet
  /\ view \in ViewSet
  /\ props = DefaultProps
  /\ formValue = EmptyMap
  /\ changed = FALSE
  /\ event = NoEvent
  /\ norm = EmptyMap
  /\ calls = <<>>
  /\ touchedOut = EmptyMap
  /\ emitted = NoView
  /\ thrown = FALSE
  /\ pc = "view"

Encode ==
  /\ pc = "view"
  /\ formValue' = viewToFormValue(view)
  /\ pc' = "formValue"
  /\ UNCHANGED <<views, view, props, changed, event, norm, calls, touchedOut, emitted, thrown>>

Decode ==
  /\ pc = "formValue"
  /\ IF formValueToViewThrows(formValue, views)
     THEN thrown' = TRUE /\ emitted' = emitted
     ELSE thrown' = FALSE /\ emitted' = formValueToView(formValue, views)
  /\ pc' = "decoded"
  /\ UNCHANGED <<views, view, props, formValue, changed, event, norm, calls, touchedOut>>

NextCodec == Encode \/ Decode

SpecCodec == InitCodec /\ [][NextCodec]_vars

----------------------------------------------------------------------------
(* normalizeValue applied to one edited value *)

\* one edit of a Form value: a key and its new value, Undef to remove the key
EditSet ==
  ({formSearchKey} \X {Str(""), Str("q"), Str("r")})
  \cup ({formSortKey} \X Optional({Sort1, Sort2}))
  \cup ({formStepKey} \X Optional({Num(0), Num(10), Num(20)}))
  \cup ({formPageKey} \X Optional(Pages))
  \cup ({formColumnsKey} \X Optional({Arr(<<>>), Arr(<<1>>), Arr(<<2>>)}))
  \cup ({formViewNameKey} \X Optional({Str("A"), Str("B"), Str("C"), Str("Z")}))
  \cup ({"status"} \X Optional({Str(""), Str("open"), Str("closed"), Arr(<<>>), Arr(<<1>>)}))
  \cup ({"age"} \X Optional({RangeValue(i, 5) : i \in 0..MaxMin}))

ApplyEdit(value, e) == IF e[2] = Undef THEN Del(value, e[1]) ELSE Put(value, e[1], e[2])

\* a view whose name is not in any collection
ViewZ == MkView(Str("Z"), Undef, Undef, Undef, Undef, Undef, TRUE, EmptyMap)

\* the Form values held before an edit: encodings of no view and of named views
HeldSet == {viewToFormValue(v) : v \in {NoView, ViewA, ViewB, ViewZ}}

\* the edited values: a held value with two edits (possibly of the same key)
EditedSet == {ApplyEdit(ApplyEdit(h, e1), e2) : h \in HeldSet, e1 \in EditSet, e2 \in EditSet}

InitNormalize ==
  /\ views \in ViewsSet
  /\ view = NoView
  /\ props = DefaultProps
  /\ formValue = EmptyMap
  /\ changed = FALSE
  /\ \E nextValue \in EditedSet, prevValue \in HeldSet :
       event = [kind |-> "none", value |-> nextValue, touched |-> {}, prev |-> prevValue]
  /\ norm = EmptyMap
  /\ calls = <<>>
  /\ touchedOut = EmptyMap
  /\ emitted = NoView
  /\ thrown = FALSE
  /\ pc = "args"

Normalize ==
  /\ pc = "args"
  /\ norm' = normalizeValue(event.value, event.prev, views)
  /\ pc' = "normalized"
  /\ UNCHANGED <<views, view, props, formValue, changed, event, calls, touchedOut,
                 emitted, thrown>>

NextNormalize == Normalize

SpecNormalize == InitNormalize /\ [][NextNormalize]_vars

----------------------------------------------------------------------------
(* transformTouched applied to one set of touched paths and one value *)

\* the paths a Form reports as touched, as the parts key.split('.') yields
PathSet ==
  {<<"status">>, <<"age", formRangeKey>>, <<"age", formRangeKey, "0">>,
   <<formSortKey, "property">>, <<formSearchKey>>, <<"missing">>}

\* the values passed along with the touched paths: a held value with one edit
TouchedValueSet == {ApplyEdit(h, e) : h \in HeldSet, e \in EditSet}

InitTouched ==
  /\ views = <<>>
  /\ view = NoView
  /\ props = DefaultProps
  /\ formValue \in TouchedValueSet
  /\ changed = FALSE
  /\ \E touched \in SUBSET PathSet :
       event = [kind |-> "none", value |-> EmptyMap, touched |-> touched, prev |-> EmptyMap]
  /\ norm = EmptyMap
  /\ calls = <<>>
  /\ touchedOut = EmptyMap
  /\ emitted = NoView
  /\ thrown = FALSE
  /\ pc = "args"

ReportTouched ==
  /\ pc = "args"
  /\ touchedOut' = transformTouched(event.touched, formValue)
  /\ pc' = "reported"
  /\ UNCHANGED <<views, view, props, formValue, changed, event, norm, calls,
                 emitted, thrown>>

NextTouched == ReportTouched

SpecTouched == InitTouched /\ [][NextTouched]_vars

----------------------------------------------------------------------------
(* The DataForm component *)

\* updateOn and the optional callbacks onTouched and onDone
PropsSet == [updateOn : {"change", "submit"}, onTouched : BOOLEAN, onDone : BOOLEAN]

\* the views the data source supplies over time
DataViewSet == {NoView, ViewB}

\* the collections of named views the data source holds
DataViewsSet == {<<>>, <<ViewA, ViewB>>}

\* the edits a user makes in the form
UserEditSet ==
  ({formSearchKey} \X {Str(""), Str("r")})
  \cup ({formSortKey} \X {Sort2})
  \cup ({formPageKey} \X {Num(i) : i \in 1..MaxPage})
  \cup ({formViewNameKey} \X {Str("A"), Str("B")})
  \cup ({"status"} \X {Str("closed"), Arr(<<>>)})
  \cup ({"age"} \X {RangeValue(0, 5)})

\* the path the Form reports as touched for an edited key
TouchedPath(key) == IF key = "age" THEN <<key, formRangeKey>> ELSE <<key>>

\* the events of the Form: the held value with one edit, or with a view
\* name chosen and another edit made in the same event
FormEvents(held) ==
  {[value |-> ApplyEdit(held, e), touched |-> {TouchedPath(e[1])}] : e \in UserEditSet}
  \cup {[value |-> ApplyEdit(ApplyEdit(held, e1), e2),
         touched |-> {TouchedPath(e1[1]), TouchedPath(e2[1])}] :
          e1 \in {e \in UserEditSet : e[1] = formViewNameKey},
          e2 \in {<<"status", Str("closed")>>, <<formPageKey, Num(MaxPage)>>}}

\* useState(viewToFormValue(view)), useState()
Init ==
  /\ views \in DataViewsSet
  /\ \E v \in DataViewSet :
       /\ view = viewAfterWrites(v, viewToFormValue(v))
       /\ formValue = viewToFormValue(v)
  /\ props \in PropsSet
  /\ changed = FALSE
  /\ event = [NoEvent EXCEPT !.kind = "mount"]
  /\ norm = EmptyMap
  /\ calls = <<>>
  /\ touchedOut = EmptyMap
  /\ emitted = NoView
  /\ thrown = FALSE
  /\ pc = "rendered"

\* useEffect(() => setFormValue(viewToFormValue(view)), [view]) after the
\* data source supplied another view
ViewArrival ==
  \E v \in DataViewSet :
    /\ v # view
    /\ view' = viewAfterWrites(v, viewToFormValue(v))
    /\ formValue' = viewToFormValue(v)
    /\ event' = [kind |-> "view", value |-> EmptyMap, touched |-> {}, prev |-> EmptyMap]
    /\ norm' = EmptyMap
    /\ calls' = <<"setFormValue">>
    /\ touchedOut' = EmptyMap
    /\ emitted' = NoView
    /\ thrown' = FALSE
    /\ UNCHANGED <<views, props, changed, pc>>

\* onChangeCalls with the view passed on before the state is set
onChangeCallsEmitFirst(p, throws) ==
  (IF p.updateOn = "change"
   THEN (IF p.onTouched THEN <<"onTouched">> ELSE <<>>)
        \o (IF throws THEN <<>> ELSE <<"onView">>)
   ELSE <<>>)
  \o <<"setFormValue", "setChanged">>

\* the calls of onChange, in order, as far as it gets
onChangeCalls(p, throws) ==
  <<"setFormValue", "setChanged">>
  \o (IF p.updateOn = "change"
      THEN (IF p.onTouched THEN <<"onTouched">> ELSE <<>>)
           \o (IF throws THEN <<>> ELSE <<"onView">>)
      ELSE <<>>)

\* the calls of onSubmit, in order, as far as it gets
onSubmitCalls(p, throws) ==
  <<"setFormValue", "setChanged">>
  \o (IF p.onTouched THEN <<"onTouched">> ELSE <<>>)
  \o (IF throws THEN <<>>
      ELSE <<"onView">> \o (IF p.onDone THEN <<"onDone">> ELSE <<>>))

\* what a handler reads of the held value: normalizeValue reads its view
\* name and resetPage its page
ReadOfHeld(held) ==
  [k \in (DOMAIN held) \cap {formViewNameKey, formPageKey} |-> held[k]]

\* const onChange = useCallback((value, { touched }) => { ... })
onChange ==
  \E ev \in FormEvents(formValue) :
  \E normalized \in {normalizeValue(ev.value, formValue, views)} :
  \E nextValue \in {resetPage(normalized, formValue)} :
  \E throws \in {props.updateOn = "change" /\ formValueToViewThrows(nextValue, views)} :
    /\ event' = [kind |-> "change", value |-> EmptyMap, touched |-> ev.touched,
                 prev |-> ReadOfHeld(formValue)]
    /\ norm' = normalized
    /\ formValue' = nextValue
    /\ changed' = TRUE
    /\ touchedOut' = IF props.updateOn = "change" /\ props.onTouched
                     THEN transformTouched(ev.touched, nextValue)
                     ELSE EmptyMap
    /\ emitted' = IF props.updateOn = "change" /\ ~throws
                  THEN formValueToView(nextValue, views)
                  ELSE NoView
    /\ thrown' = throws
    /\ calls' = onChangeCalls(props, throws)
    /\ views' = IF props.updateOn = "change" /\ ~throws
                THEN viewsAfterDecode(nextValue,
                       viewsAfterNormalize(ev.value, formValue, views, nextValue))
                ELSE viewsAfterNormalize(ev.value, formValue, views, nextValue)
    /\ UNCHANGED <<view, props, pc>>

\* const onSubmit = useCallback(({ value, touched }) => { ... }), passed to
\* the Form only when updateOn === 'submit'
onSubmit ==
  /\ props.updateOn = "submit"
  /\ \E ev \in FormEvents(formValue) :
     \E normalized \in {normalizeValue(ev.value, formValue, views)} :
     \E nextValue \in {resetPage(normalized, formValue)} :
     \E throws \in {formValueToViewThrows(nextValue, views)} :
       /\ event' = [kind |-> "submit", value |-> EmptyMap, touched |-> ev.touched,
                    prev |-> ReadOfHeld(formValue)]
       /\ norm' = normalized
       /\ formValue' = nextValue
       /\ changed' = FALSE
       /\ touchedOut' = IF props.onTouched
                        THEN transformTouched(ev.touched, nextValue)
                        ELSE EmptyMap
       /\ emitted' = IF ~throws THEN formValueToView(nextValue, views) ELSE NoView
       /\ thrown' = throws
       /\ calls' = onSubmitCalls(props, throws)
       /\ views' = IF ~throws
                   THEN viewsAfterDecode(nextValue,
                          viewsAfterNormalize(ev.value, formValue, views, nextValue))
                   ELSE viewsAfterNormalize(ev.value, formValue, views, nextValue)
       /\ UNCHANGED <<view, props, pc>>

\* onReset that leaves the changed flag as it is
onResetKeepsChanged ==
  /\ props.updateOn = "submit"
  /\ changed
  /\ event' = [kind |-> "reset", value |-> EmptyMap, touched |-> {},
               prev |-> ReadOfHeld(formValue)]
  /\ norm' = EmptyMap
  /\ formValue' = viewToFormValue(view)
  /\ calls' = <<"setFormValue">>
  /\ touchedOut' = EmptyMap
  /\ emitted' = NoView
  /\ thrown' = FALSE
  /\ view' = viewAfterWrites(view, viewToFormValue(view))
  /\ UNCHANGED <<views, props, changed, pc>>

\* onReset that keeps the edited value
onResetKeepsValue ==
  /\ props.updateOn = "submit"
  /\ changed
  /\ event' = [kind |-> "reset", value |-> EmptyMap, touched |-> {},
               prev |-> ReadOfHeld(formValue)]
  /\ norm' = EmptyMap
  /\ changed' = FALSE
  /\ calls' = <<"setChanged">>
  /\ touchedOut' = EmptyMap
  /\ emitted' = NoView
  /\ thrown' = FALSE
  /\ UNCHANGED <<views, view, props, formValue, pc>>

\* const onReset = useCallback(() => { ... }), the onClick of the reset
\* button, which is rendered when updateOn === 'submit' and disabled
\* unless changed
onReset ==
  /\ props.updateOn = "submit"
  /\ changed
  /\ event' = [kind |-> "reset", value |-> EmptyMap, touched |-> {},
               prev |-> ReadOfHeld(formValue)]
  /\ norm' = EmptyMap
  /\ formValue' = viewToFormValue(view)
  /\ changed' = FALSE
  /\ calls' = <<"setFormValue", "setChanged">>
  /\ touchedOut' = EmptyMap
  /\ emitted' = NoView
  /\ thrown' = FALSE
  /\ view' = viewAfterWrites(view, viewToFormValue(view))
  /\ UNCHANGED <<views, props, pc>>

Next == ViewArrival \/ onChange \/ onSubmit \/ onReset

Spec == Init /\ [][Next]_vars

----------------------------------------------------------------------------
(* Claims about the codec, checked under SpecCodec *)

NoEmptySequenceProperty(v) == \A k \in DOMAIN v.properties : ~IsEmptyArray(v.properties[k])

\* C1 as stated: for every view without an empty-sequence property and every
\* collection, decoding the encoded view gives back the view.
C1_RoundTripAnyView ==
  (pc = "decoded" /\ view.exists /\ NoEmptySequenceProperty(view))
    => (~thrown /\ emitted = view)

\* a view the codec gives back unchanged: it has a properties object, no
\* name and no view field, and its search, step and page are missing or truthy
RoundTrips(v) ==
  /\ v.exists
  /\ v.hasProperties
  /\ NoEmptySequenceProperty(v)
  /\ v.name = Undef
  /\ v.view = Undef
  /\ \A key \in {"search", "step", "page"} : v[key] = Undef \/ Truthy(v[key])

\* C1 (amended): for every unnamed view that has a properties object, no
\* empty-sequence property and no falsy search, step or page, and for every
\* collection, decoding the encoded view gives back exactly the view,
\* range properties included.
C1_RoundTripUnnamed ==
  (pc = "decoded" /\ RoundTrips(view)) => (~thrown /\ emitted = view)

\* an unnamed view with a range property, search text and a page was
\* encoded to a range value and decoded back
C1_Witness ==
  /\ pc = "decoded"
  /\ RoundTrips(view)
  /\ "age" \in DOMAIN view.properties
  /\ formValue["age"].t = "range"
  /\ Truthy(view.search)
  /\ Truthy(view.page)
  /\ Len(views) > 0
  /\ emitted = view

\* C2: decoding a Form value whose _view names a view that is not in the
\* collection does not throw; the result is built from an empty object and
\* the Form value's own fields.
C2_DecodeMissingView ==
  (pc = "decoded" /\ Truthy(Get(formValue, formViewNameKey))
     /\ FindView(views, Get(formValue, formViewNameKey)) = 0)
    => (~thrown /\ emitted = formValueToView(formValue, views))

----------------------------------------------------------------------------
(* Claims about normalizeValue, checked under SpecNormalize *)

\* the view name changed: nextValue has a view name and prevValue another or none
ViewSwitched(nextValue, prevValue) ==
  /\ Truthy(Get(nextValue, formViewNameKey))
  /\ Get(nextValue, formViewNameKey) # Get(prevValue, formViewNameKey)

\* C6: when next._view is present and differs from prev._view, the result
\* is exactly the encoding of the view of that name in the collection (the
\* encoding of no view when there is none), whatever else next holds.
C6_ViewSwitchWins ==
  (pc = "normalized" /\ ViewSwitched(event.value, event.prev))
    => IF \E i \in 1..Len(views) : views[i].name = event.value[formViewNameKey]
       THEN \E i \in 1..Len(views) :
              /\ views[i].name = event.value[formViewNameKey]
              /\ norm = viewToFormValue(views[i])
       ELSE norm = [_search |-> Str("")]

\* the view changed from A to B in an event that also edited status, and the
\* result is the encoding of B without the status
C6_Witness ==
  /\ pc = "normalized"
  /\ Get(event.prev, formViewNameKey) = Str("A")
  /\ Get(event.value, formViewNameKey) = Str("B")
  /\ Get(event.value, "status") = Str("closed")
  /\ Len(views) = 2
  /\ norm = viewToFormValue(ViewB)
  /\ "status" \notin DOMAIN norm

\* the pruned canonical encoding of the view that value names
Canonical(value, vs) ==
  clearEmpty(viewToFormValue(FoundView(vs, Get(value, formViewNameKey))))

\* some key is truthy in both values and the two values differ
DiffersOnSharedKey(a, b) ==
  \E k \in (DOMAIN a) \cap (DOMAIN b) : Truthy(a[k]) /\ Truthy(b[k]) /\ a[k] # b[k]

----------------------------------------------------------------------------
(* Claims about the DataForm component, checked under Spec *)

Called(name) == \E i \in DOMAIN calls : calls[i] = name
UserEvent == event.kind \in {"change", "submit"}

\* C3: after a new view arrived from the data source, in whatever state,
\* the held value is the encoding of that view and the form is not changed.
C3_ViewArrivalWins ==
  event.kind = "view" => (formValue = viewToFormValue(view) /\ ~changed)

\* C4: the view passed to onView by a change or submit event encodes back
\* to the Form value that the event committed.
C4_NoDrift ==
  (UserEvent /\ Called("onView")) => viewToFormValue(emitted) = formValue

\* C5: a handler that passes a view to onView has set the Form value before,
\* and the view is the decoding of the Form value it has set.
C5_EmitAfterCommit ==
  \A i \in DOMAIN calls :
    calls[i] = "onView"
      => /\ UserEvent
         /\ \E j \in 1..(i - 1) : calls[j] = "setFormValue"
         /\ ~formValueToViewThrows(formValue, views)
         /\ emitted = formValueToView(formValue, views)

\* a change event whose page was reset after normalizeValue passed on the
\* view of the committed value, with page 1
C5_Witness ==
  /\ event.kind = "change"
  /\ Called("onView")
  /\ Called("onTouched")
  /\ norm # formValue
  /\ emitted.page = Num(1)
  /\ emitted = formValueToView(formValue, views)

ReservedKeys == {formSearchKey, formSortKey, formStepKey, formPageKey, formColumnsKey}

\* neither falsy nor an empty array
NonEmpty(v) == Truthy(v) /\ ~IsEmptyArray(v)

\* the value has the canonical value of key k, where both are non-empty
ConsistentAt(value, vs, k) ==
  LET canonical == viewToFormValue(FoundView(vs, Get(value, formViewNameKey)))
  IN (NonEmpty(Get(value, k)) /\ NonEmpty(Get(canonical, k)))
       => Get(value, k) = Get(canonical, k)

\* C9 as stated: a committed value that has a view name holds, for every
\* reserved key that is non-empty in it and in the canonical encoding of
\* the named view, the canonical value.
C9_NamedConsistent ==
  (UserEvent /\ Truthy(Get(formValue, formViewNameKey)))
    => \A k \in ReservedKeys : ConsistentAt(formValue, views, k)

\* C9 (amended): a committed value that has a view name holds the canonical
\* value for every reserved key other than _page that is non-empty in
\* both; its _page, when non-empty in both, is the canonical page or 1.
C9_NamedConsistentButPage ==
  (UserEvent /\ Truthy(Get(formValue, formViewNameKey)))
    => /\ \A k \in ReservedKeys \ {formPageKey} : ConsistentAt(formValue, views, k)
       /\ \/ ConsistentAt(formValue, views, formPageKey)
          \/ Get(formValue, formPageKey) = Num(1)

\* an edit of the status under the view B kept the name and B's sort, step
\* and columns, while the page was reset from B's page to 1
C9_Witness ==
  /\ event.kind = "change"
  /\ event.touched = {<<"status">>}
  /\ Get(formValue, formViewNameKey) = Str("B")
  /\ Len(views) = 2
  /\ formValue[formSortKey] = ViewB.sort
  /\ formValue[formStepKey] = ViewB.step
  /\ formValue[formColumnsKey] = ViewB.columns
  /\ formValue[formPageKey] = Num(1)
  /\ ViewB.page # Num(1)

\* C10: a change event calls onTouched (when given) and onView exactly when
\* updateOn is "change"; a reset event calls neither; a submit event is
\* handled only when updateOn is "submit".
C10_PropagationPolicy ==
  /\ event.kind = "change"
       => /\ Called("onView") <=> props.updateOn = "change"
          /\ Called("onTouched") <=> (props.updateOn = "change" /\ props.onTouched)
          /\ Called("setFormValue")
  /\ event.kind = "reset" => (~Called("onView") /\ ~Called("onTouched"))
  /\ event.kind = "submit" => props.updateOn = "submit"
\* C11: a submit event sets the normalized, page-reset Form value, then
\* calls onTouched (when given), then onView with the decoding of that
\* value, then onDone (when given), each once and in that order.
C11_SubmitSequence ==
  event.kind = "submit"
    => /\ calls = <<"setFormValue", "setChanged">>
                  \o (IF props.onTouched THEN <<"onTouched">> ELSE <<>>)
                  \o <<"onView">>
                  \o (IF props.onDone THEN <<"onDone">> ELSE <<>>)
       /\ formValue = resetPage(norm, event.prev)
       /\ emitted = formValueToView(formValue, views)

\* C12: the form starts unchanged; it is changed after every change event
\* and unchanged after every submit event and after every reset event.
C12_ChangedFlag ==
  /\ event.kind = "mount" => ~changed
  /\ event.kind = "change" => changed
  /\ event.kind \in {"submit", "reset"} => ~changed

\* a reset event, which only a changed form offers, left the form unchanged
C12_Witness ==
  /\ event.kind = "reset"
  /\ ~changed
  /\ calls = <<"setFormValue", "setChanged">>
\* C17: after a reset event the held value is the encoding of the current
\* view of the data source, whatever was edited before.
C17_ResetDiscardsEdits ==
  event.kind = "reset" => formValue = viewToFormValue(view)

\* a reset in a form that was edited to another view name and page: the
\* held value is again the encoding of the data source's view B
C17_Witness ==
  /\ event.kind = "reset"
  /\ view = ViewB
  /\ Get(event.prev, formViewNameKey) = Str("A")
  /\ formValue = viewToFormValue(ViewB)
----------------------------------------------------------------------------
(* Further claims about normalizeValue, checked under SpecNormalize *)

\* C13: with an empty collection, normalizeValue of a value that has a view
\* name returns the value changed only by clearEmpty.
C13_EmptyCollectionInert ==
  (pc = "normalized" /\ views = <<>> /\ Truthy(Get(event.value, formViewNameKey)))
    => norm = clearEmpty(event.value)

\* the keys of a value that hold an empty array
EmptyKeys(value) == {k \in DOMAIN value : IsEmptyArray(value[k])}

\* the value the handlers set: resetPage applied to the normalized value
Committed == resetPage(norm, event.prev)

\* C19 as stated: the value committed for an edit holds no empty array,
\* in the edit branch and in the view-switch branch.
C19_NoEmptySelections ==
  pc = "normalized" => EmptyKeys(Committed) = {}

\* C19 (amended): the value committed through the edit branch holds no
\* empty array; the value committed through the view-switch branch is the
\* unpruned encoding of the named view and holds an empty array exactly
\* where that encoding does.
C19_NoEmptySelectionsInEditBranch ==
  pc = "normalized"
    => IF ViewSwitched(event.value, event.prev)
       THEN EmptyKeys(Committed)
              = EmptyKeys(viewToFormValue(FoundView(views, event.value[formViewNameKey])))
       ELSE EmptyKeys(Committed) = {}

\* an edit that emptied the status selection and the columns under the
\* view A: both keys are gone from the committed value
C19_Witness ==
  /\ pc = "normalized"
  /\ ~ViewSwitched(event.value, event.prev)
  /\ Get(event.value, formViewNameKey) = Str("A")
  /\ EmptyKeys(event.value) = {"status", formColumnsKey}
  /\ DOMAIN Committed = {formSearchKey, formViewNameKey}
----------------------------------------------------------------------------
(* Further claims about the codec, checked under SpecCodec *)

\* C16: the encoding of every view, an absent one included, has the key
\* _search, and its value is '' whenever the view has no search text.
C16_DefaultSearch ==
  pc \in {"formValue", "decoded"}
    => /\ formSearchKey \in DOMAIN formValue
       /\ ~Truthy(view.search) => formValue[formSearchKey] = Str("")

\* the encoding of the absent view is { _search: '' }
C16_Witness ==
  /\ pc = "formValue"
  /\ ~view.exists
  /\ DOMAIN formValue = {formSearchKey}
  /\ formValue[formSearchKey] = Str("")

\* the properties of the supplied view (none when there is no object)
SuppliedProperties == IF view.exists /\ view.hasProperties THEN view.properties ELSE EmptyMap

\* C18: a property { min, max } with numeric bounds is encoded as
\* { _range: [min, max] }; decoding turns every property { _range: [min, max] }
\* of the Form value into { min, max }, and no property of the emitted view
\* is a _range wrapper.
C18_RangeRoundTrip ==
  /\ pc \in {"formValue", "decoded"}
       => \A k \in DOMAIN SuppliedProperties :
            SuppliedProperties[k].t = "minmax"
              => formValue[k] = [t |-> "range", s |-> "", n |-> SuppliedProperties[k].n]
  /\ (pc = "decoded" /\ ~thrown)
       => /\ \A k \in DOMAIN emitted.properties : emitted.properties[k].t # "range"
          /\ \A k \in PropertyKeys(formValue) :
               formValue[k].t = "range"
                 => emitted.properties[k] = [t |-> "minmax", s |-> "", n |-> formValue[k].n]

\* an age of 1 to 5 went to the wrapper and back
C18_Witness ==
  /\ pc = "decoded"
  /\ ~thrown
  /\ Get(SuppliedProperties, "age") = MinMax(1, 5)
  /\ formValue["age"] = RangeValue(1, 5)
  /\ emitted.properties["age"] = MinMax(1, 5)
----------------------------------------------------------------------------
(* Claim about transformTouched, checked under SpecTouched *)

\* C15: transformTouched returns a map whose keys are exactly the touched
\* paths; a path whose second segment is _range maps to the value at its
\* first segment, every other path maps to the value at the path itself.
C15_TouchedReport ==
  pc = "reported"
    => /\ DOMAIN touchedOut = event.touched
       /\ \A parts \in event.touched :
            touchedOut[parts]
              = IF Len(parts) >= 2 /\ parts[2] = "_range"
                THEN Get(formValue, parts[1])
                ELSE Get(formValue, JoinPath(parts))

\* a touched range field reports the whole range, a touched sort field
\* reports the value at the literal key '_sort.property', which is undefined
C15_Witness ==
  /\ pc = "reported"
  /\ {<<"age", "_range">>, <<"_sort", "property">>, <<"_search">>} \subseteq event.touched
  /\ touchedOut[<<"age", "_range">>] = RangeValue(0, 5)
  /\ touchedOut[<<"_sort", "property">>] = Undef
  /\ touchedOut[<<"_search">>] = Str("")
----------------------------------------------------------------------------
(* Frame claim about the component, checked under Spec *)

====
